---- MODULE Spec2Model ----
(***************************************************************************)
(* Model of zemld/config-manager, package rcm (RedisConfigManager): the    *)
(* refreshed configuration store, its background refresh tasks and its     *)
(* typed getters.  Source: src/pkg/cm/mcm/in_memory_cm.go lines 140-345.   *)
(*                                                                         *)
(* Texts (Go strings) are sequences of one-character strings, so that the  *)
(* parsers of the getters and the %v formatting of LoadConfig are computed *)
(* character by character, as the library does.                            *)
(***************************************************************************)
EXTENDS Integers, Sequences, FiniteSets, Bags, TLC

VARIABLES
    remote,     \* what the remote holds under serviceName: 0 = Get fails, i = Payloads[i]
    closes,     \* number of r.Close() invocations on the shared client
    ctxDone,    \* rcm.ctx has been cancelled (rcm.cancel() was called)
    wg,         \* rcm.wg, the WaitGroup counter
    mu,         \* rcm.mu, the RWMutex: [w: a writer holds it, r: number of readers holding it]
    config,     \* rcm.config, map[string]string, a function on the keys present
    updatedAt,  \* rcm.updatedAt, 0 = the zero time.Time
    loaders,    \* bag of running LoadConfig executions and refresh goroutines
    readers,    \* number of getter calls between their RLock and their RUnlock
    stop,       \* position of the controlling goroutine inside StopLoading
    out         \* the last result returned by a getter or by LoadConfig

vars == <<remote, closes, ctxDone, wg, mu, config, updatedAt, loaders, readers, stop, out>>

----------------------------------------------------------------------------
(* Bounds of the model *)

MaxTasks == 2       \* refresh goroutines alive at the same time
MaxStops == 2       \* StopLoading calls
MaxCalls == 2       \* direct LoadConfig calls in progress at the same time
MaxReaders == 2     \* getter calls in progress at the same time
MaxTime == 2        \* readings of the clock: time.Now() is in 1..MaxTime

----------------------------------------------------------------------------
(* Texts *)

Digits == {"0", "1", "2", "3", "4", "5", "6", "7", "8", "9"}

IsDigit(c) == c \in Digits

DigitVal(c) ==
    CASE c = "0" -> 0 [] c = "1" -> 1 [] c = "2" -> 2 [] c = "3" -> 3 [] c = "4" -> 4
      [] c = "5" -> 5 [] c = "6" -> 6 [] c = "7" -> 7 [] c = "8" -> 8 [] c = "9" -> 9

DigitChar(d) ==
    CASE d = 0 -> "0" [] d = 1 -> "1" [] d = 2 -> "2" [] d = 3 -> "3" [] d = 4 -> "4"
      [] d = 5 -> "5" [] d = 6 -> "6" [] d = 7 -> "7" [] d = 8 -> "8" [] d = 9 -> "9"

RECURSIVE Pow10(_)
Pow10(k) == IF k <= 0 THEN 1 ELSE 10 * Pow10(k - 1)

RECURSIVE Itoa(_)
\* decimal digits of a natural number
Itoa(n) == IF n < 10 THEN <<DigitChar(n)>> ELSE Itoa(n \div 10) \o <<DigitChar(n % 10)>>

RECURSIVE Zeros(_)
Zeros(k) == IF k <= 0 THEN <<>> ELSE <<"0">> \o Zeros(k - 1)

Abs(n) == IF n < 0 THEN -n ELSE n

\* the texts used as stored values and payload strings
T_42 == <<"4", "2">>
T_m7 == <<"-", "7">>
T_p5 == <<"+", "5">>
T_1 == <<"1">>
T_0 == <<"0">>
T_true == <<"t", "r", "u", "e">>
T_False == <<"F", "a", "l", "s", "e">>
T_abc == <<"a", "b", "c">>
T_empty == <<>>
T_3p14 == <<"3", ".", "1", "4">>
T_1e06 == <<"1", "e", "+", "0", "6">>
T_5s == <<"5", "s">>
T_100ms == <<"1", "0", "0", "m", "s">>
T_1h30m == <<"1", "h", "3", "0", "m">>
T_1p5s == <<"1", ".", "5", "s">>
T_5x == <<"5", "x">>
T_nil == <<"<", "n", "i", "l", ">">>

----------------------------------------------------------------------------
(* The remote payload and its decoding (LoadConfig, lines 213-228) *)

Keys == {"a", "b"}

EmptyMap == [k \in {} |-> <<>>]

\* a JSON number is m * 10^e, m not a multiple of 10 unless it is 0:
\* json.Unmarshal into map[string]any decodes every number as a float64
JNum(m, e) == [t |-> "num", m |-> m, e |-> e]
JStr(s) == [t |-> "str", s |-> s]
JBool(b) == [t |-> "bool", b |-> b]
JNull == [t |-> "null"]

JObject(o) == [kind |-> "object", obj |-> o]
JGarbage == [kind |-> "garbage", obj |-> EmptyMap]

\* the values the remote entry takes
Payloads ==
    << JObject([k \in {"a", "b"} |-> IF k = "a" THEN JNum(42, 0) ELSE JBool(TRUE)]),
       JObject([k \in {"a"} |-> JStr(T_abc)]),
       JGarbage >>

NumPayloads == Len(Payloads)

\* json.Unmarshal([]byte(rawConfig), &rawConfigMap) on a fresh map: only an
\* object decodes (a JSON null would decode to no keys)
Unmarshal(raw) ==
    IF raw.kind = "object" THEN [ok |-> TRUE, m |-> raw.obj]
    ELSE IF raw.kind = "null" THEN [ok |-> TRUE, m |-> EmptyMap]
    ELSE [ok |-> FALSE, m |-> EmptyMap]

\* strconv's %e form of the shortest digits ds with decimal exponent exp
FmtE(ds, exp) ==
    <<Head(ds)>> \o (IF Len(ds) > 1 THEN <<".">> \o Tail(ds) ELSE <<>>)
      \o <<"e", IF exp < 0 THEN "-" ELSE "+">>
      \o (IF Abs(exp) < 10 THEN <<"0">> ELSE <<>>) \o Itoa(Abs(exp))

\* strconv's %f form of the shortest digits ds with the decimal point after dp digits
FmtF(ds, dp) ==
    (IF dp > 0
       THEN SubSeq(ds, 1, IF dp < Len(ds) THEN dp ELSE Len(ds)) \o Zeros(dp - Len(ds))
       ELSE <<"0">>)
    \o (IF Len(ds) > dp
          THEN <<".">> \o Zeros(-dp) \o SubSeq(ds, (IF dp > 0 THEN dp ELSE 0) + 1, Len(ds))
          ELSE <<>>)

\* %v of a float64: strconv.FormatFloat(v, 'g', -1, 64); %e is used when the
\* decimal exponent is < -4 or >= 6 (shortest precision)
FormatG(m, e) ==
    IF m = 0 THEN <<"0">>
    ELSE LET ds == Itoa(Abs(m))
             dp == Len(ds) + e
             exp == dp - 1
             body == IF exp < -4 \/ exp >= 6 THEN FmtE(ds, exp) ELSE FmtF(ds, dp)
         IN  (IF m < 0 THEN <<"-">> ELSE <<>>) \o body

\* fmt.Sprintf("%v", value) of a decoded JSON value (line 227)
Sprintv(v) ==
    CASE v.t = "num" -> FormatG(v.m, v.e)
      [] v.t = "str" -> v.s
      [] v.t = "bool" -> IF v.b THEN <<"t", "r", "u", "e">> ELSE <<"f", "a", "l", "s", "e">>
      [] v.t = "null" -> <<"<", "n", "i", "l", ">">>

\* a plausible slip: the range loop appends the text to the value the key
\* already has (rcm.config[key] += ...)
MergedConfigAppends(cfg, m) ==
    [k \in DOMAIN cfg \cup DOMAIN m |->
        IF k \in DOMAIN m
          THEN (IF k \in DOMAIN cfg THEN cfg[k] ELSE <<>>) \o Sprintv(m[k])
          ELSE cfg[k]]

\* a plausible slip: the range loop skips a key the map already has, so the
\* value of the preceding snapshot stays
MergedConfigKeepsOld(cfg, m) ==
    [k \in DOMAIN cfg \cup DOMAIN m |-> IF k \in DOMAIN cfg THEN cfg[k] ELSE Sprintv(m[k])]

\* the range loop of LoadConfig (lines 226-228): every key of the decoded
\* payload is assigned into the existing map
MergedConfig(cfg, m) ==
    [k \in DOMAIN cfg \cup DOMAIN m |-> IF k \in DOMAIN m THEN Sprintv(m[k]) ELSE cfg[k]]

----------------------------------------------------------------------------
(* The parsers the getters call.  Each returns [ok, v]; on failure v is the *)
(* zero value the library returns together with the error.                  *)

RECURSIVE AtoiDigits(_, _)
\* the digit loop of strconv.Atoi: any byte that is not a digit is a syntax error
AtoiDigits(s, n) ==
    IF s = <<>> THEN [ok |-> TRUE, v |-> n]
    ELSE IF ~IsDigit(Head(s)) THEN [ok |-> FALSE, v |-> 0]
    ELSE AtoiDigits(Tail(s), n * 10 + DigitVal(Head(s)))

\* strconv.Atoi (line 250): an optional sign, then one or more digits (the
\* texts of the model are too short to leave the range of int)
Atoi(s) ==
    IF s = <<>> THEN [ok |-> FALSE, v |-> 0]
    ELSE LET signed == Head(s) \in {"-", "+"}
             body == IF signed THEN Tail(s) ELSE s
             r == AtoiDigits(body, 0)
         IN  IF body = <<>> \/ ~r.ok THEN [ok |-> FALSE, v |-> 0]
             ELSE [ok |-> TRUE, v |-> IF Head(s) = "-" THEN -r.v ELSE r.v]

\* strconv.ParseBool (line 286): exactly these twelve texts
ParseBool(s) ==
    IF s \in { <<"1">>, <<"t">>, <<"T">>, <<"T", "R", "U", "E">>,
               <<"t", "r", "u", "e">>, <<"T", "r", "u", "e">> }
      THEN [ok |-> TRUE, v |-> TRUE]
    ELSE IF s \in { <<"0">>, <<"f">>, <<"F">>, <<"F", "A", "L", "S", "E">>,
                    <<"f", "a", "l", "s", "e">>, <<"F", "a", "l", "s", "e">> }
      THEN [ok |-> TRUE, v |-> FALSE]
    ELSE [ok |-> FALSE, v |-> FALSE]

\* a float64 value as a decimal m * 10^e, m not a multiple of 10; zero is (0, 0)
RECURSIVE NormFloat(_, _)
NormFloat(m, e) ==
    IF m = 0 THEN [m |-> 0, e |-> 0]
    ELSE IF m % 10 = 0 THEN NormFloat(m \div 10, e + 1)
    ELSE [m |-> m, e |-> e]

FloatZero == [m |-> 0, e |-> 0]

RECURSIVE LeadingDigits(_)
\* the longest prefix of s made of digits
LeadingDigits(s) ==
    IF s = <<>> \/ ~IsDigit(Head(s)) THEN <<>> ELSE <<Head(s)>> \o LeadingDigits(Tail(s))

RECURSIVE DigitsVal(_, _)
DigitsVal(ds, n) == IF ds = <<>> THEN n ELSE DigitsVal(Tail(ds), n * 10 + DigitVal(Head(ds)))

Drop(s, n) == SubSeq(s, n + 1, Len(s))

\* strconv.ParseFloat(value, 64) (line 262) on decimal texts: an optional
\* sign, digits with at most one point and at least one digit, an optional
\* exponent e[sign]digits, and nothing after it.  (Hexadecimal mantissas,
\* underscores and the words inf/infinity/nan use characters no text of the
\* model has.)
ParseFloat(s) ==
    LET fail == [ok |-> FALSE, v |-> FloatZero]
        signed == s # <<>> /\ Head(s) \in {"-", "+"}
        neg == signed /\ Head(s) = "-"
        s1 == IF signed THEN Tail(s) ELSE s
        ip == LeadingDigits(s1)
        s2 == Drop(s1, Len(ip))
        dot == s2 # <<>> /\ Head(s2) = "."
        fp == IF dot THEN LeadingDigits(Tail(s2)) ELSE <<>>
        s3 == IF dot THEN Drop(s2, 1 + Len(fp)) ELSE s2
        hasExp == s3 # <<>> /\ Head(s3) \in {"e", "E"}
        s4 == IF hasExp THEN Tail(s3) ELSE s3
        esigned == hasExp /\ s4 # <<>> /\ Head(s4) \in {"-", "+"}
        s5 == IF esigned THEN Tail(s4) ELSE s4
        ep == IF hasExp THEN LeadingDigits(s5) ELSE <<>>
        rest == IF hasExp THEN Drop(s5, Len(ep)) ELSE s3
        ev == DigitsVal(ep, 0) * (IF esigned /\ Head(s4) = "-" THEN -1 ELSE 1)
        mant == DigitsVal(ip \o fp, 0)
    IN  IF ip \o fp = <<>> THEN fail
        ELSE IF hasExp /\ ep = <<>> THEN fail
        ELSE IF rest # <<>> THEN fail
        ELSE [ok |-> TRUE,
              v |-> NormFloat(IF neg THEN -mant ELSE mant, ev - Len(fp))]

\* a time.Duration as whole seconds and nanoseconds below one second
DurZero == [neg |-> FALSE, sec |-> 0, ns |-> 0]

NanosPerSecond == 1000000000

\* time's unitMap: the unit's length as [sec, ns]
UnitOf(u) ==
    CASE u = <<"n", "s">> -> [ok |-> TRUE, sec |-> 0, ns |-> 1]
      [] u = <<"u", "s">> -> [ok |-> TRUE, sec |-> 0, ns |-> 1000]
      [] u = <<"m", "s">> -> [ok |-> TRUE, sec |-> 0, ns |-> 1000000]
      [] u = <<"s">> -> [ok |-> TRUE, sec |-> 1, ns |-> 0]
      [] u = <<"m">> -> [ok |-> TRUE, sec |-> 60, ns |-> 0]
      [] u = <<"h">> -> [ok |-> TRUE, sec |-> 3600, ns |-> 0]
      [] OTHER -> [ok |-> FALSE, sec |-> 0, ns |-> 0]

RECURSIVE LeadingUnit(_)
\* the unit: every character up to the next digit or point
LeadingUnit(s) ==
    IF s = <<>> \/ IsDigit(Head(s)) \/ Head(s) = "." THEN <<>>
    ELSE <<Head(s)>> \o LeadingUnit(Tail(s))

\* v whole units plus f / scale of a unit, in nanoseconds as [sec, ns]
DurTerm(v, f, scale, unit) ==
    IF unit.sec = 0
      THEN LET total == v * unit.ns + (f * unit.ns) \div scale
           IN  [sec |-> total \div NanosPerSecond, ns |-> total % NanosPerSecond]
      ELSE LET x == f * unit.sec
           IN  [sec |-> v * unit.sec + x \div scale,
                ns |-> (x % scale) * (NanosPerSecond \div scale)]

RECURSIVE DurTerms(_, _, _)
\* the loop of time.ParseDuration: ([0-9]*(\.[0-9]*)?[a-z]+)+ , summed
DurTerms(s, sec, ns) ==
    IF s = <<>> THEN [ok |-> TRUE, sec |-> sec + ns \div NanosPerSecond, ns |-> ns % NanosPerSecond]
    ELSE LET fail == [ok |-> FALSE, sec |-> 0, ns |-> 0]
             ip == LeadingDigits(s)
             s1 == Drop(s, Len(ip))
             dot == s1 # <<>> /\ Head(s1) = "."
             fp == IF dot THEN LeadingDigits(Tail(s1)) ELSE <<>>
             s2 == IF dot THEN Drop(s1, 1 + Len(fp)) ELSE s1
             u == LeadingUnit(s2)
             unit == UnitOf(u)
             t == DurTerm(DigitsVal(ip, 0), DigitsVal(fp, 0), Pow10(Len(fp)), unit)
         IN  IF ~(Head(s) = "." \/ IsDigit(Head(s))) THEN fail
             ELSE IF ip = <<>> /\ fp = <<>> THEN fail
             ELSE IF u = <<>> THEN fail
             ELSE IF ~unit.ok THEN fail
             ELSE DurTerms(Drop(s2, Len(u)), sec + t.sec, ns + t.ns)

\* time.ParseDuration (line 298)
ParseDuration(s) ==
    LET signed == s # <<>> /\ Head(s) \in {"-", "+"}
        body == IF signed THEN Tail(s) ELSE s
        r == DurTerms(body, 0, 0)
    IN  IF body = <<"0">> THEN [ok |-> TRUE, v |-> DurZero]
        ELSE IF body = <<>> \/ ~r.ok THEN [ok |-> FALSE, v |-> DurZero]
        ELSE [ok |-> TRUE,
              v |-> [neg |-> signed /\ Head(s) = "-" /\ (r.sec # 0 \/ r.ns # 0),
                     sec |-> r.sec, ns |-> r.ns]]

----------------------------------------------------------------------------
(* The getters, as functions of the snapshot (the code between RLock and    *)
(* RUnlock).  A result is [err, v]: err is "nil", "notfound" or "parse".    *)

Types == {"int", "float", "string", "bool", "duration"}

GetInt(cfg, key) ==
    IF key \notin DOMAIN cfg THEN [err |-> "notfound", v |-> 0]
    ELSE LET r == Atoi(cfg[key])
         IN  [err |-> IF r.ok THEN "nil" ELSE "parse", v |-> r.v]

GetFloat(cfg, key) ==
    IF key \notin DOMAIN cfg THEN [err |-> "notfound", v |-> FloatZero]
    ELSE LET r == ParseFloat(cfg[key])
         IN  [err |-> IF r.ok THEN "nil" ELSE "parse", v |-> r.v]

\* a plausible slip: the lookup's ok is not tested, the missing key reads as ""
GetStringUnchecked(cfg, key) ==
    [err |-> "nil", v |-> IF key \in DOMAIN cfg THEN cfg[key] ELSE <<>>]

GetString(cfg, key) ==
    IF key \notin DOMAIN cfg THEN [err |-> "notfound", v |-> <<>>]
    ELSE [err |-> "nil", v |-> cfg[key]]

GetBool(cfg, key) ==
    IF key \notin DOMAIN cfg THEN [err |-> "notfound", v |-> FALSE]
    ELSE LET r == ParseBool(cfg[key])
         IN  [err |-> IF r.ok THEN "nil" ELSE "parse", v |-> r.v]

GetDuration(cfg, key) ==
    IF key \notin DOMAIN cfg THEN [err |-> "notfound", v |-> DurZero]
    ELSE LET r == ParseDuration(cfg[key])
         IN  [err |-> IF r.ok THEN "nil" ELSE "parse", v |-> r.v]

\* a plausible slip: the error of GetInt is dropped and its value returned
GetIntWithDefaultNoErrCheck(cfg, key, defaultValue) == GetInt(cfg, key).v

GetIntWithDefault(cfg, key, defaultValue) ==
    LET r == GetInt(cfg, key) IN IF r.err # "nil" THEN defaultValue ELSE r.v

GetFloatWithDefault(cfg, key, defaultValue) ==
    LET r == GetFloat(cfg, key) IN IF r.err # "nil" THEN defaultValue ELSE r.v

GetStringWithDefault(cfg, key, defaultValue) ==
    LET r == GetString(cfg, key) IN IF r.err # "nil" THEN defaultValue ELSE r.v

GetBoolWithDefault(cfg, key, defaultValue) ==
    LET r == GetBool(cfg, key) IN IF r.err # "nil" THEN defaultValue ELSE r.v

GetDurationWithDefault(cfg, key, defaultValue) ==
    LET r == GetDuration(cfg, key) IN IF r.err # "nil" THEN defaultValue ELSE r.v

\* the ConfigGetter method for a requested type
Getter(type, cfg, key) ==
    CASE type = "int" -> GetInt(cfg, key)
      [] type = "float" -> GetFloat(cfg, key)
      [] type = "string" -> GetString(cfg, key)
      [] type = "bool" -> GetBool(cfg, key)
      [] type = "duration" -> GetDuration(cfg, key)

\* the ConfigGetterWithDefault method for a requested type
GetterWithDefault(type, cfg, key, d) ==
    CASE type = "int" -> GetIntWithDefault(cfg, key, d)
      [] type = "float" -> GetFloatWithDefault(cfg, key, d)
      [] type = "string" -> GetStringWithDefault(cfg, key, d)
      [] type = "bool" -> GetBoolWithDefault(cfg, key, d)
      [] type = "duration" -> GetDurationWithDefault(cfg, key, d)

\* the zero value of a type
ZeroOf(type) ==
    CASE type = "int" -> 0
      [] type = "float" -> FloatZero
      [] type = "string" -> <<>>
      [] type = "bool" -> FALSE
      [] type = "duration" -> DurZero

\* the defaults callers pass
Defaults(type) ==
    CASE type = "int" -> {0, 100}
      [] type = "float" -> {[m |-> 5, e |-> -1]}
      [] type = "string" -> {<<>>, <<"d">>}
      [] type = "bool" -> {TRUE, FALSE}
      [] type = "duration" -> {[neg |-> FALSE, sec |-> 1, ns |-> 0]}

\* the stored texts the getters are tried on
Texts ==
    { T_42, T_m7, T_p5, T_1, T_0, T_true, T_False, T_abc, T_empty, T_3p14,
      T_1e06, T_5s, T_100ms, T_1h30m, T_1p5s, T_5x, T_nil }

\* every snapshot over Keys with values in Texts
Snapshots == UNION { [ks -> Texts] : ks \in SUBSET Keys }

NoOut == [call |-> "none", type |-> "none", key |-> "", d |-> 0, err |-> "nil", v |-> 0]

----------------------------------------------------------------------------
(* Typed payloads: one value of a known type under key "a" *)

\* a payload value with the type its author means and the value the getter
\* of that type is to return
IntInput(n) ==
    LET f == NormFloat(n, 0)
    IN  [type |-> "int", json |-> JNum(f.m, f.e), want |-> n]
BoolInput(b) == [type |-> "bool", json |-> JBool(b), want |-> b]
StringInput(s) == [type |-> "string", json |-> JStr(s), want |-> s]
DurationInput(s, sec, ns) ==
    [type |-> "duration", json |-> JStr(s), want |-> [neg |-> FALSE, sec |-> sec, ns |-> ns]]

TypedInputs ==
    << IntInput(0), IntInput(1), IntInput(42), IntInput(-7), IntInput(120000),
       IntInput(999999), IntInput(1000000), IntInput(-2500000),
       BoolInput(TRUE), BoolInput(FALSE),
       StringInput(T_abc), StringInput(T_empty), StringInput(T_42),
       DurationInput(T_5s, 5, 0), DurationInput(T_100ms, 0, 100000000),
       DurationInput(T_1h30m, 5400, 0) >>

TypedPayloads ==
    [i \in 1..Len(TypedInputs) |-> JObject([k \in {"a"} |-> TypedInputs[i].json])]

\* every payload a fetch can return: index i <= NumPayloads is Payloads[i],
\* the typed payloads follow
AllPayloads == Payloads \o TypedPayloads

\* the typed value a remote index holds
TypedInputAt(i) == TypedInputs[i - NumPayloads]

----------------------------------------------------------------------------
(* InMemoryConfigManager (lines 9-138): typed values behind type assertions *)

\* mcm.data as NewMockConfigManager is given it for a typed value: the value
\* with its Go type (int, bool, string, time.Duration) under key "a"
InMemoryData(i) ==
    [k \in {"a"} |-> [type |-> TypedInputAt(i).type, v |-> TypedInputAt(i).want]]

\* GetInt, GetFloat, GetString, GetBool, GetDuration of the in-memory store
\* (lines 25-93): the lookup, then the type assertion value.(T); err is
\* "nil", "notfound" or "type" (key is not a T)
InMemoryGet(type, data, key) ==
    IF key \notin DOMAIN data THEN [err |-> "notfound", v |-> ZeroOf(type)]
    ELSE IF data[key].type # type THEN [err |-> "type", v |-> ZeroOf(type)]
    ELSE [err |-> "nil", v |-> data[key].v]

\* Get*WithDefault of the in-memory store (lines 95-138)
InMemoryGetWithDefault(type, data, key, defaultValue) ==
    LET r == InMemoryGet(type, data, key)
    IN  IF r.err # "nil" THEN defaultValue ELSE r.v

----------------------------------------------------------------------------
(* The store and its goroutines *)

\* a plausible slip: the goroutine calls LoadConfig once before it waits for a tick
NewTaskFetchesFirst == [kind |-> "task", pc |-> "get", raw |-> 0, tick |-> FALSE]

\* a LoadConfig execution: kind "task" is a refresh goroutine (fetchUpdates),
\* kind "call" a direct call of LoadConfig.
\*   pc   "select"   a task blocked in the select of fetchUpdates
\*        "get"      LoadConfig has issued r.Get and waits for its result
\*        "decode"   the result is in rawConfig, json.Unmarshal is next
\*        "lock"     decoded, rcm.mu.Lock() is next
\*        "apply"    holding the write lock, before the range loop
\*   raw  the index of the fetched payload, 0 when none is held
\*   tick ticker.C holds a tick
NewTask == [kind |-> "task", pc |-> "select", raw |-> 0, tick |-> FALSE]
NewCall == [kind |-> "call", pc |-> "get", raw |-> 0, tick |-> FALSE]

Replace(bag, old, new) == (bag (-) SetToBag({old})) (+) SetToBag({new})

Running == BagToSet(loaders)

Tasks == { l \in Running : l.kind = "task" }

\* the result LoadConfig returns: err is "nil", "get" (line 215) or "json" (line 220)
LoadResult(l, err) ==
    [call |-> "LoadConfig", type |-> l.kind, key |-> "", d |-> 0, err |-> err, v |-> 0]

\* LoadConfig returns: a task goes back to the select of fetchUpdates (line
\* 207 discards the error), a direct call is over
Returned(l, err) ==
    /\ loaders' = IF l.kind = "task"
                    THEN Replace(loaders, l, [l EXCEPT !.pc = "select", !.raw = 0])
                    ELSE loaders (-) SetToBag({l})
    /\ out' = LoadResult(l, err)

Init ==
    /\ remote = 0
    /\ closes = 0
    /\ ctxDone = FALSE
    /\ wg = 0
    /\ mu = [w |-> FALSE, r |-> 0]
    /\ config = EmptyMap
    /\ updatedAt = 0
    /\ loaders = EmptyBag
    /\ readers = 0
    /\ stop = "idle"
    /\ out = NoOut

\* the remote entry is rewritten, removed or becomes unreachable
RemoteSet(i) ==
    /\ i # remote
    /\ remote' = i
    /\ UNCHANGED <<closes, ctxDone, wg, mu, config, updatedAt, loaders, readers, stop, out>>

\* StartLoading (lines 188-199): wg.Add(1) and a new goroutine with its ticker
StartLoading ==
    /\ stop = "idle"
    /\ wg < MaxTasks
    /\ wg' = wg + 1
    /\ loaders' = loaders (+) SetToBag({NewTask})
    /\ UNCHANGED <<remote, closes, ctxDone, mu, config, updatedAt, readers, stop, out>>

\* the interval elapses: the ticker puts a tick in ticker.C (dropped when one is there)
Tick(l) ==
    /\ l.kind = "task"
    /\ ~l.tick
    /\ loaders' = Replace(loaders, l, [l EXCEPT !.tick = TRUE])
    /\ UNCHANGED <<remote, closes, ctxDone, wg, mu, config, updatedAt, readers, stop, out>>

\* fetchUpdates, case <-ticker.C (lines 206-207): LoadConfig is called
SelectTick(l) ==
    /\ l.kind = "task" /\ l.pc = "select"
    /\ l.tick
    /\ loaders' = Replace(loaders, l, [l EXCEPT !.pc = "get", !.tick = FALSE])
    /\ UNCHANGED <<remote, closes, ctxDone, wg, mu, config, updatedAt, readers, stop, out>>

\* a plausible slip: the select of fetchUpdates has no case for the context,
\* so the goroutine never sees the cancellation
SelectDoneMissing(l) ==
    /\ FALSE
    /\ UNCHANGED <<remote, closes, ctxDone, wg, mu, config, updatedAt, loaders, readers, stop, out>>

\* fetchUpdates, case <-rcm.ctx.Done() (lines 204-205), then the deferred
\* ticker.Stop() and wg.Done() of the goroutine (lines 192, 195)
SelectDone(l) ==
    /\ l.kind = "task" /\ l.pc = "select"
    /\ ctxDone
    /\ loaders' = loaders (-) SetToBag({l})
    /\ wg' = wg - 1
    /\ UNCHANGED <<remote, closes, ctxDone, mu, config, updatedAt, readers, stop, out>>

\* a direct call of LoadConfig by some goroutine of the caller
CallLoadConfig ==
    /\ BagCardinality(loaders) - wg < MaxCalls
    /\ loaders' = loaders (+) SetToBag({NewCall})
    /\ UNCHANGED <<remote, closes, ctxDone, wg, mu, config, updatedAt, readers, stop, out>>

\* a plausible slip: LoadConfig takes the write lock at its start, so the lock
\* is held from the return of r.Get on
GetValueUnderLock(l) ==
    /\ l.pc = "get"
    /\ remote # 0
    /\ ~mu.w /\ mu.r = 0
    /\ mu' = [mu EXCEPT !.w = TRUE]
    /\ loaders' = Replace(loaders, l, [l EXCEPT !.pc = "decode", !.raw = remote])
    /\ UNCHANGED <<remote, closes, ctxDone, wg, config, updatedAt, readers, stop, out>>

\* r.Get(...).Result() returns a value (line 213)
GetValue(l) ==
    /\ l.pc = "get"
    /\ remote # 0
    /\ loaders' = Replace(loaders, l, [l EXCEPT !.pc = "decode", !.raw = remote])
    /\ UNCHANGED <<remote, closes, ctxDone, wg, mu, config, updatedAt, readers, stop, out>>

\* a plausible slip: fetchUpdates returns when LoadConfig fails, ending the goroutine
GetFailedEndsTask(l) ==
    /\ loaders' = loaders (-) SetToBag({l})
    /\ wg' = IF l.kind = "task" THEN wg - 1 ELSE wg
    /\ out' = LoadResult(l, "get")
    /\ UNCHANGED <<remote, closes, ctxDone, mu, config, updatedAt, readers, stop>>

\* LoadConfig when r.Get has failed (lines 214-216)
GetFailed(l) ==
    /\ Returned(l, "get")
    /\ UNCHANGED <<remote, closes, ctxDone, wg, mu, config, updatedAt, readers, stop>>

\* r.Get(...).Result() returns an error: the entry is missing or the remote
\* unreachable, the client is closed, or the task's context is cancelled.
\* A get that is outstanding when the client is closed or the context
\* cancelled may still return the value (GetValue) or fail: both are kept.
GetError(l) ==
    /\ l.pc = "get"
    /\ remote = 0 \/ closes > 0 \/ (l.kind = "task" /\ ctxDone)
    /\ GetFailed(l)

\* a plausible slip: the payload is decoded into rcm.config itself, which is
\* emptied first, so a failed decode leaves an empty snapshot
DecodeFailedClears(l) ==
    /\ Returned(l, "json")
    /\ config' = EmptyMap
    /\ UNCHANGED <<remote, closes, ctxDone, wg, mu, updatedAt, readers, stop>>

\* LoadConfig when json.Unmarshal has failed (lines 219-221)
DecodeFailed(l) ==
    /\ Returned(l, "json")
    /\ UNCHANGED <<remote, closes, ctxDone, wg, mu, config, updatedAt, readers, stop>>

\* json.Unmarshal of the fetched payload (lines 218-221)
Decode(l) ==
    /\ l.pc = "decode"
    /\ IF Unmarshal(AllPayloads[l.raw]).ok
         THEN /\ loaders' = Replace(loaders, l, [l EXCEPT !.pc = "lock"])
              /\ UNCHANGED <<remote, closes, ctxDone, wg, mu, config, updatedAt, readers, stop, out>>
         ELSE DecodeFailed(l)

\* sync.RWMutex: Lock is granted when no writer and no reader holds the lock
CanLock == ~mu.w /\ mu.r = 0

\* a plausible slip: the getter reads the map without taking the read lock
CanRLockAlways == TRUE

\* sync.RWMutex: RLock is granted when no writer holds the lock.  (A writer
\* that waits also holds new readers back; leaving that out only adds
\* interleavings.)
CanRLock == ~mu.w

\* rcm.mu.Lock() (line 223)
Lock(l) ==
    /\ l.pc = "lock"
    /\ CanLock
    /\ mu' = [mu EXCEPT !.w = TRUE]
    /\ loaders' = Replace(loaders, l, [l EXCEPT !.pc = "apply"])
    /\ UNCHANGED <<remote, closes, ctxDone, wg, config, updatedAt, readers, stop, out>>

\* time.Now() (line 230): readings of the clock do not go back, and are not the zero time
Now == { t \in 1..MaxTime : t >= updatedAt }

\* a plausible slip: the replacement step does not set updatedAt
ApplyKeepsTimestamp(l) ==
    /\ l.pc = "apply"
    /\ config' = MergedConfig(config, Unmarshal(AllPayloads[l.raw]).m)
    /\ mu' = [mu EXCEPT !.w = FALSE]
    /\ Returned(l, "nil")
    /\ UNCHANGED <<remote, closes, ctxDone, wg, updatedAt, readers, stop>>

\* the range loop, updatedAt, the deferred Unlock and return nil (lines 224-232)
Apply(l) ==
    /\ l.pc = "apply"
    /\ config' = MergedConfig(config, Unmarshal(AllPayloads[l.raw]).m)
    /\ updatedAt' \in Now
    /\ mu' = [mu EXCEPT !.w = FALSE]
    /\ Returned(l, "nil")
    /\ UNCHANGED <<remote, closes, ctxDone, wg, readers, stop>>

\* StopLoading, rcm.cancel() (line 236)
StopCancel ==
    /\ stop = "idle"
    /\ closes < MaxStops
    /\ ctxDone' = TRUE
    /\ stop' = "cancelled"
    /\ UNCHANGED <<remote, closes, wg, mu, config, updatedAt, loaders, readers, out>>

\* StopLoading, rcm.r.Close() (line 237)
StopClose ==
    /\ stop = "cancelled"
    /\ closes' = closes + 1
    /\ stop' = "closed"
    /\ UNCHANGED <<remote, ctxDone, wg, mu, config, updatedAt, loaders, readers, out>>

\* a plausible slip: StopLoading does not wait for the goroutines
WaitDoneAtOnce == TRUE

\* sync.WaitGroup: Wait returns when the counter is zero
WaitDone == wg = 0

\* StopLoading, rcm.wg.Wait() returns and so does StopLoading (line 238)
StopWait ==
    /\ stop = "closed"
    /\ WaitDone
    /\ stop' = "returned"
    /\ UNCHANGED <<remote, closes, ctxDone, wg, mu, config, updatedAt, loaders, readers, out>>

\* the controlling goroutine goes on after StopLoading
StopReturn ==
    /\ stop = "returned"
    /\ stop' = "idle"
    /\ UNCHANGED <<remote, closes, ctxDone, wg, mu, config, updatedAt, loaders, readers, out>>

\* the result a getter returns
GetResult(type, key) ==
    LET res == Getter(type, config, key)
    IN  [call |-> "Get", type |-> type, key |-> key, d |-> ZeroOf(type),
         err |-> res.err, v |-> res.v]

\* a getter takes the read lock: rcm.mu.RLock() (lines 242, 254, 266, 278, 290)
RLock ==
    /\ readers < MaxReaders
    /\ CanRLock
    /\ mu' = [mu EXCEPT !.r = mu.r + 1]
    /\ readers' = readers + 1
    /\ UNCHANGED <<remote, closes, ctxDone, wg, config, updatedAt, loaders, stop, out>>

\* a plausible slip: the getter unlocks by hand before each return and the
\* error returns miss it, so a failed getter keeps its read lock
GetReturnKeepsLockOnError(type, key) ==
    /\ readers > 0
    /\ out' = GetResult(type, key)
    /\ mu' = IF GetResult(type, key).err = "nil" THEN [mu EXCEPT !.r = mu.r - 1] ELSE mu
    /\ readers' = readers - 1
    /\ UNCHANGED <<remote, closes, ctxDone, wg, config, updatedAt, loaders, stop>>

\* a getter that holds the read lock looks its key up, parses, releases the
\* lock (deferred RUnlock) and returns.  The type and the key are arguments
\* of the call that nothing reads before the lookup: they are drawn here.
GetReturn(type, key) ==
    /\ readers > 0
    /\ out' = GetResult(type, key)
    /\ mu' = [mu EXCEPT !.r = mu.r - 1]
    /\ readers' = readers - 1
    /\ UNCHANGED <<remote, closes, ctxDone, wg, config, updatedAt, loaders, stop>>

\* a Get*WithDefault call whose getter holds the read lock: the getter looks
\* the key up, parses, releases the lock and returns, and the default
\* replaces an error (lines 301-344)
GetWithDefaultReturn(type, key, d) ==
    /\ readers > 0
    /\ mu' = [mu EXCEPT !.r = mu.r - 1]
    /\ readers' = readers - 1
    /\ UNCHANGED <<remote, closes, ctxDone, wg, config, updatedAt, loaders, stop>>
    /\ out' = [call |-> "GetWithDefault", type |-> type, key |-> key,
               d |-> d, err |-> "nil", v |-> GetterWithDefault(type, config, key, d)]

\* a whole getter call when nothing runs beside it (lines 241-299)
Get(type, key) ==
    /\ CanRLock
    /\ out' = GetResult(type, key)
    /\ UNCHANGED <<remote, closes, ctxDone, wg, mu, config, updatedAt, loaders, readers, stop>>

\* a whole Get*WithDefault call when nothing runs beside it (lines 301-344)
GetWithDefault(type, key, d) ==
    /\ CanRLock
    /\ out' = [call |-> "GetWithDefault", type |-> type, key |-> key,
               d |-> d, err |-> "nil", v |-> GetterWithDefault(type, config, key, d)]
    /\ UNCHANGED <<remote, closes, ctxDone, wg, mu, config, updatedAt, loaders, readers, stop>>

----------------------------------------------------------------------------
(* Specifications *)

LoadStep(l) ==
    \/ GetValue(l)
    \/ GetError(l)
    \/ Decode(l)
    \/ Lock(l)
    \/ Apply(l)

\* the refresh goroutines under StartLoading and StopLoading
Next ==
    \/ \E i \in 0..NumPayloads : RemoteSet(i)
    \/ StartLoading
    \/ \E l \in Running : Tick(l)
    \/ \E l \in Running : SelectTick(l)
    \/ \E l \in Running : SelectDone(l)
    \/ \E l \in Running : LoadStep(l)
    \/ StopCancel
    \/ StopClose
    \/ StopWait
    \/ StopReturn

Spec == Init /\ [][Next]_vars

\* sync.RWMutex: a Lock that waits holds new RLock calls back until the
\* writer has had the lock, so readers cannot keep a writer out for ever
RLockBehindWriter ==
    /\ \A l \in Running : l.pc # "lock"
    /\ RLock

\* Scheduling: a goroutine that can run does run (the steps of LoadConfig,
\* with a remote get that always returns; the steps of StopLoading; a getter
\* that holds the read lock), and a
\* select whose Done case is ready again and again takes it in the end (the
\* choice among ready cases is uniformly random).
Fairness ==
    /\ WF_vars(\E l \in Running : LoadStep(l))
    /\ SF_vars(\E l \in Running : SelectDone(l))
    /\ WF_vars(StopClose)
    /\ WF_vars(StopWait)
    /\ WF_vars(\E key \in Keys : GetReturn("int", key))

\* StartLoading, the refresh goroutines and StopLoading on a remote entry that
\* stays as it is: any of the payloads, or a get that fails
InitStop ==
    /\ remote \in 0..NumPayloads
    /\ closes = 0
    /\ ctxDone = FALSE
    /\ wg = 0
    /\ mu = [w |-> FALSE, r |-> 0]
    /\ config = EmptyMap
    /\ updatedAt = 0
    /\ loaders = EmptyBag
    /\ readers = 0
    /\ stop = "idle"
    /\ out = NoOut

NextStop ==
    \/ StartLoading
    \/ \E l \in Running : Tick(l)
    \/ \E l \in Running : SelectTick(l)
    \/ \E l \in Running : SelectDone(l)
    \/ \E l \in Running : LoadStep(l)
    \/ StopCancel
    \/ StopClose
    \/ StopWait
    \/ StopReturn
    \/ RLockBehindWriter
    \/ \E key \in Keys : GetReturn("int", key)

FairSpec == InitStop /\ [][NextStop]_vars /\ Fairness

\* getters beside direct LoadConfig calls
NextRW ==
    \/ \E i \in 0..NumPayloads : RemoteSet(i)
    \/ CallLoadConfig
    \/ \E l \in Running : LoadStep(l)
    \/ RLock
    \/ \E type \in Types, key \in Keys : GetReturn(type, key)

SpecRW == Init /\ [][NextRW]_vars

\* the getters on every snapshot
InitGet ==
    /\ remote = 0
    /\ closes = 0
    /\ ctxDone = FALSE
    /\ wg = 0
    /\ mu = [w |-> FALSE, r |-> 0]
    /\ config \in Snapshots
    /\ updatedAt = 0
    /\ loaders = EmptyBag
    /\ readers = 0
    /\ stop = "idle"
    /\ out = NoOut

NextGet ==
    \/ \E type \in Types, key \in Keys : Get(type, key)
    \/ \E type \in Types, key \in Keys : \E d \in Defaults(type) : GetWithDefault(type, key, d)

SpecGet == InitGet /\ [][NextGet]_vars

\* LoadConfig calls and getters on a remote that holds one typed payload
InitRT ==
    /\ remote \in (NumPayloads + 1)..Len(AllPayloads)
    /\ closes = 0
    /\ ctxDone = FALSE
    /\ wg = 0
    /\ mu = [w |-> FALSE, r |-> 0]
    /\ config = EmptyMap
    /\ updatedAt = 0
    /\ loaders = EmptyBag
    /\ readers = 0
    /\ stop = "idle"
    /\ out = NoOut

NextRT ==
    \/ CallLoadConfig
    \/ \E l \in Running : GetValue(l)
    \/ \E l \in Running : Decode(l)
    \/ \E l \in Running : Lock(l)
    \/ \E l \in Running : Apply(l)
    \/ \E type \in Types, key \in Keys : Get(type, key)

SpecRT == InitRT /\ [][NextRT]_vars

\* the remote entry is rewritten with the next payload; it never goes back
RemoteAdvance ==
    /\ remote < NumPayloads - 1
    /\ RemoteSet(remote + 1)

\* overlapping LoadConfig executions, of refresh goroutines and of direct
\* calls, on a remote entry that holds the first payload and is rewritten
\* with later ones
InitAdvance ==
    /\ remote = 1
    /\ closes = 0
    /\ ctxDone = FALSE
    /\ wg = 0
    /\ mu = [w |-> FALSE, r |-> 0]
    /\ config = EmptyMap
    /\ updatedAt = 0
    /\ loaders = EmptyBag
    /\ readers = 0
    /\ stop = "idle"
    /\ out = NoOut

NextAdvance ==
    \/ RemoteAdvance
    \/ StartLoading
    \/ CallLoadConfig
    \/ \E l \in Running : Tick(l)
    \/ \E l \in Running : SelectTick(l)
    \/ \E l \in Running : GetValue(l)
    \/ \E l \in Running : Decode(l)
    \/ \E l \in Running : Lock(l)
    \/ \E l \in Running : Apply(l)

SpecAdvance == InitAdvance /\ [][NextAdvance]_vars

\* getters and Get*WithDefault calls beside the refresh goroutines, on a
\* remote entry that holds the first payload
NextRO ==
    \/ StartLoading
    \/ \E l \in Running : Tick(l)
    \/ \E l \in Running : SelectTick(l)
    \/ \E l \in Running : GetValue(l)
    \/ \E l \in Running : Decode(l)
    \/ \E l \in Running : Lock(l)
    \/ \E l \in Running : Apply(l)
    \/ RLock
    \/ \E type \in Types, key \in Keys : GetReturn(type, key)
    \/ \E type \in Types, key \in Keys : \E d \in Defaults(type) : GetWithDefaultReturn(type, key, d)

SpecRO == InitAdvance /\ [][NextRO]_vars

----------------------------------------------------------------------------
(* Properties *)

\* the payload at index i, every value as its text
Stringified(i) ==
    LET m == Unmarshal(AllPayloads[i]).m IN [k \in DOMAIN m |-> Sprintv(m[k])]

\* the number of refresh goroutines that have not exited
NumTasks == BagCardinality([l \in Tasks |-> loaders[l]])

\* the number of LoadConfig executions inside the write-locked section
NumWriters ==
    BagCardinality([l \in { x \in Running : x.pc = "apply" } |-> loaders[l]])

\* this step is LoadConfig of l returning an error
LoadFails(l) ==
    \/ GetError(l)
    \/ l.pc = "decode" /\ ~Unmarshal(AllPayloads[l.raw]).ok /\ Decode(l)

\* C1: after every successful LoadConfig the snapshot is exactly the
\* stringified remote payload it fetched: the snapshot is replaced wholesale,
\* so a key of the previous snapshot that the payload lacks is gone.
C1_SnapshotIsPayload ==
    [][\A l \in Running : Apply(l) => config' = Stringified(l.raw)]_vars

\* C2: refresh is all-or-nothing: a step in which LoadConfig returns an error
\* leaves the snapshot and the last-updated timestamp as they were, and the
\* only steps that change either are LoadConfig executions returning nil.
C2_FailedLoadChangesNothing ==
    [][ /\ \A l \in Running : LoadFails(l) => UNCHANGED <<config, updatedAt>>
        /\ (config' # config \/ updatedAt' # updatedAt)
             => (out'.call = "LoadConfig" /\ out'.err = "nil") ]_vars

\* a LoadConfig has failed on undecodable data after a successful refresh, and
\* the snapshot of that refresh is still there
C2_Witness ==
    /\ out.call = "LoadConfig" /\ out.err = "json"
    /\ DOMAIN config # {}
    /\ updatedAt > 0

\* C3: no getter is inside its read-locked section while a LoadConfig is
\* inside its write-locked section, and at most one LoadConfig is inside it:
\* every read sees the map as some LoadConfig left it, never one being written.
C3_NoReadDuringWrite ==
    /\ readers > 0 => NumWriters = 0
    /\ NumWriters <= 1

\* two getters hold the read lock while a refresh waits for the write lock
C3_Witness ==
    /\ readers >= 2
    /\ \E l \in Running : l.pc = "lock"

\* C4: when StopLoading returns, every refresh goroutine started before has
\* exited, so none of them is in LoadConfig or will call it.
C4_StopWaitsForTasks ==
    stop = "returned" => (Tasks = {} /\ wg = 0)

\* StopLoading returns after a background refresh had replaced the snapshot
C4_Witness ==
    /\ stop = "returned"
    /\ DOMAIN config # {}
    /\ out.call = "LoadConfig" /\ out.type = "task"

\* C5: no refresh races with the shutdown of the collaborator: once the
\* client is closed no refresh goroutine has a remote get issued or outstanding.
C5_NoGetAfterClose ==
    closes > 0 => \A l \in Tasks : l.pc # "get"

\* C6: over any sequence of StartLoading and StopLoading calls the
\* connection's close is invoked exactly once: never twice, and once as soon
\* as a StopLoading has passed its close.
C6_ClosedExactlyOnce ==
    /\ closes <= 1
    /\ stop \in {"closed", "returned"} => closes = 1

\* C7: a store has at most one active background refresh task.
C7_AtMostOneTask ==
    NumTasks <= 1

\* C8: a failed refresh does not end the refresh loop: the step in which
\* LoadConfig fails inside a task leaves that task at its select, a task
\* only ever exits after cancellation, and a refresh that then succeeds
\* stores every value of its payload.
C8_FailedRefreshKeepsLoop ==
    [][ /\ \A l \in Tasks :
             LoadFails(l) =>
               /\ NumTasks' = NumTasks
               /\ [l EXCEPT !.pc = "select", !.raw = 0] \in BagToSet(loaders')
        /\ NumTasks' < NumTasks => ctxDone
        /\ \A l \in Tasks :
             Apply(l) => \A k \in DOMAIN Stringified(l.raw) :
                           k \in DOMAIN config' /\ config'[k] = Stringified(l.raw)[k] ]_vars

\* the only task has failed a refresh, has not been cancelled, and is in
\* LoadConfig again
C8_Witness ==
    /\ wg = 1 /\ ~ctxDone
    /\ out.call = "LoadConfig" /\ out.type = "task" /\ out.err # "nil"
    /\ \E l \in Tasks : l.pc = "get"

\* the texts of Texts that are valid for a type: decimal integers with an
\* optional sign; decimal floating-point numbers; any text; the boolean
\* words; sequences of decimal numbers with a unit suffix, or "0"
ValidTexts(type) ==
    CASE type = "int" -> {T_42, T_m7, T_p5, T_1, T_0}
      [] type = "float" -> {T_42, T_m7, T_p5, T_1, T_0, T_3p14, T_1e06}
      [] type = "string" -> Texts
      [] type = "bool" -> {T_1, T_0, T_true, T_False}
      [] type = "duration" -> {T_0, T_5s, T_100ms, T_1h30m, T_1p5s}

\* C9: GetTWithDefault(key, d) returns what GetT(key) returns when GetT
\* succeeds, and d when GetT fails: when the key is absent and when its text
\* is not valid for T.
C9_DefaultOnAnyFailure ==
    out.call = "GetWithDefault" =>
      LET g == Getter(out.type, config, out.key)
      IN  /\ g.err = "nil" => out.v = g.v
          /\ g.err # "nil" => out.v = out.d
          /\ out.key \notin DOMAIN config => out.v = out.d
          /\ (out.key \in DOMAIN config /\ config[out.key] \notin ValidTexts(out.type))
               => out.v = out.d
          /\ out.err = "nil"

\* GetIntWithDefault has returned its default for a key whose text is no integer
C9_Witness ==
    /\ out.call = "GetWithDefault" /\ out.type = "int" /\ out.d = 100
    /\ out.key \in DOMAIN config /\ config[out.key] = T_abc
    /\ out.v = 100

\* C10: for a key absent from the snapshot every getter returns a not-found
\* error; for a key that is present a getter fails only with a parse error,
\* and exactly when the stored text is not valid for the requested type.
C10_GetterErrors ==
    out.call = "Get" =>
      IF out.key \notin DOMAIN config
        THEN out.err = "notfound"
        ELSE /\ out.err \in {"nil", "parse"}
             /\ out.err = "parse" <=> config[out.key] \notin ValidTexts(out.type)

\* GetString has returned not-found for an absent key while the other key is present
C10_Witness ==
    /\ out.call = "Get" /\ out.type = "string"
    /\ out.key \notin DOMAIN config /\ DOMAIN config # {}
    /\ out.err = "notfound"

\* C11: load/get round trip.  For a payload holding an integer n, a boolean
\* b, a string s or a duration string d under a key, after a successful
\* LoadConfig the getter of that type returns the same value (the duration d
\* denotes, for a duration string) with no error, for every typed payload.
C11_RoundTrip ==
    (remote > NumPayloads /\ updatedAt > 0) =>
        Getter(TypedInputAt(remote).type, config, "a")
            = [err |-> "nil", v |-> TypedInputAt(remote).want]

\* C12: no implicit coercion.  After a successful LoadConfig of a payload
\* that holds an integer under a key (the integer 1 is stored as "1"),
\* GetBool on that key fails with a parse error: it never returns a boolean
\* for an integer payload value.
C12_IntegerIsNoBool ==
    (remote > NumPayloads /\ updatedAt > 0 /\ TypedInputAt(remote).type = "int") =>
        GetBool(config, "a").err = "parse"

\* C13: LoadConfig is idempotent on an unchanged remote payload.  When a
\* successful LoadConfig has already loaded the payload the remote still
\* holds, a further successful LoadConfig leaves the snapshot value-equal:
\* only the last-updated timestamp may move, and it does not move back.
C13_LoadIsIdempotent ==
    [][\A l \in Running :
          (Apply(l) /\ updatedAt > 0) =>
              /\ config' = config
              /\ config' = Stringified(remote)
              /\ updatedAt' >= updatedAt]_vars

\* the payload is loaded and a second LoadConfig of the same payload holds
\* the write lock, its assignments next
C13_Witness ==
    /\ updatedAt > 0
    /\ config = Stringified(remote)
    /\ \E l \in Running : l.pc = "apply" /\ l.raw = remote

\* C14: Stopped is terminal.  Once a StopLoading has returned, no refresh
\* goroutine calls LoadConfig any more, whatever StartLoading is called
\* later and whenever the ticks come: no task leaves its select by the tick
\* case.
C14_StoppedIsTerminal ==
    [][(closes > 0 /\ stop = "idle") => \A l \in Tasks : ~SelectTick(l)]_vars

\* the number of refresh goroutines inside a LoadConfig call
NumInLoad ==
    BagCardinality([l \in { x \in Tasks : x.pc # "select" } |-> loaders[l]])

\* C15: StartLoading does not fetch at once.  A new store has an empty
\* snapshot; StartLoading starts a goroutine that waits in its select and
\* starts no LoadConfig; a goroutine enters LoadConfig only by taking a tick
\* of its own ticker, one tick for each refresh; and until a refresh has
\* succeeded every getter returns not-found for every key.
C15_FirstFetchAfterTick ==
    [][/\ updatedAt = 0 =>
            \A type \in Types, key \in Keys : Getter(type, config, key).err = "notfound"
       /\ wg' > wg => NumInLoad' = NumInLoad
       /\ NumInLoad' > NumInLoad =>
            \E l \in Tasks :
                /\ l.pc = "select" /\ l.tick
                /\ loaders' = Replace(loaders, l, [l EXCEPT !.pc = "get", !.tick = FALSE])]_vars

\* the first refresh of a goroutine is under way, its tick taken, and the
\* snapshot is still empty
C15_Witness ==
    /\ updatedAt = 0 /\ config = EmptyMap
    /\ out = NoOut
    /\ \E l \in Tasks : l.pc = "get" /\ ~l.tick

\* C16: cancellation does not interrupt a fetch in flight.  When StopLoading
\* has signalled cancellation while the LoadConfig of a refresh goroutine has
\* its remote get outstanding and the remote is healthy, that get does not
\* fail: the refresh runs to completion and the goroutine sees the
\* cancellation at its next select.
C16_FetchInFlightCompletes ==
    [][\A l \in Tasks :
          (l.pc = "get" /\ ctxDone /\ stop # "idle" /\ remote # 0) => ~GetError(l)]_vars

\* C17: visibility ordering.  When a successful refresh releases its write
\* lock the snapshot holds, for every key of that refresh's payload, the
\* value from that payload; the snapshot changes by no other step; and a
\* getter returns what the snapshot holds when it reads under the read lock.
\* So a getter that begins after the release returns the payload's value for
\* each of its keys, until a later refresh replaces it, and never the value
\* of the preceding snapshot.
C17_VisibleAfterUnlock ==
    [][/\ \A l \in Running :
            Apply(l) =>
                /\ ~mu'.w
                /\ \A k \in DOMAIN Stringified(l.raw) :
                       GetString(config', k) = [err |-> "nil", v |-> Stringified(l.raw)[k]]
       /\ config' # config => \E l \in Running : Apply(l)
       /\ readers' < readers =>
            /\ out'.call = "Get"
            /\ out'.err = Getter(out'.type, config, out'.key).err
            /\ out'.v = Getter(out'.type, config, out'.key).v]_vars

\* a refresh of {a: "abc"} has replaced the value of key a that the refresh
\* of {a: 42, b: true} left, and a getter has returned the new value
C17_Witness ==
    /\ "b" \in DOMAIN config
    /\ out.call = "Get" /\ out.type = "string" /\ out.key = "a"
    /\ out.err = "nil" /\ out.v = T_abc
    /\ GetString(config, "a").v = T_abc

\* C18: LoadConfig holds the write lock only for the replacement step.  The
\* write lock is held exactly while one LoadConfig is between its Lock and
\* its return; a LoadConfig that waits for its remote get or decodes does not
\* hold it, so while every running refresh is at its get or its decode the
\* lock is free and a getter is granted the read lock.
C18_LockOnlyForReplacement ==
    /\ mu.w <=> NumWriters = 1
    /\ NumWriters <= 1
    /\ (\A l \in Running : l.pc \in {"get", "decode", "lock"}) => ~mu.w /\ CanRLock

\* a getter holds the read lock while a refresh has its remote get outstanding
C18_Witness ==
    /\ readers > 0 /\ mu.r > 0
    /\ \E l \in Running : l.pc = "get"

\* C19: StopLoading comes to an end.  Under fair scheduling and a remote get
\* that always returns, once StopLoading has signalled cancellation every
\* refresh goroutine exits and StopLoading returns.
C19_StopLoadingReturns ==
    (stop = "cancelled") ~> (stop = "returned" /\ wg = 0 /\ Tasks = {})

\* StopLoading has returned after it waited for a goroutine that was inside
\* a LoadConfig call when the cancellation was signalled
C19_Witness ==
    /\ stop = "returned" /\ wg = 0
    /\ out.call = "LoadConfig" /\ out.type = "task" /\ out.err = "get"
    /\ closes > 0

\* C20: updatedAt is the time of the last successful refresh.  It is unset
\* (the zero time) exactly while no LoadConfig has succeeded; every successful
\* LoadConfig sets it, to a reading of the clock, in the write-locked step
\* that replaces the snapshot; it never decreases; and no other step (a
\* LoadConfig that fails, a getter) changes it.
C20_UpdatedAtIsLastSuccess ==
    [][/\ updatedAt = 0 <=> config = EmptyMap
       /\ updatedAt' >= updatedAt
       /\ \A l \in Running :
            Apply(l) =>
                /\ mu.w /\ l.pc = "apply"
                /\ updatedAt' >= 1
                /\ config' = MergedConfig(config, Unmarshal(AllPayloads[l.raw]).m)
       /\ updatedAt' # updatedAt => \E l \in Running : Apply(l)
       /\ \A l \in Running : LoadFails(l) => updatedAt' = updatedAt
       /\ readers' < readers => updatedAt' = updatedAt]_vars

\* after a successful refresh a LoadConfig has failed at its remote get and
\* the timestamp is still set
C20_Witness ==
    /\ updatedAt > 0
    /\ out.call = "LoadConfig" /\ out.err = "get"
    /\ config # EmptyMap

\* no execution is inside a LoadConfig call
NoLoadRunning == \A l \in Running : l.pc = "select"

\* C21: no stale overwrite.  On a remote entry that is only ever rewritten
\* with a newer payload, once the snapshot holds the value the remote holds
\* now for key "a" (so the execution that fetched last fetched this payload),
\* the LoadConfig that finishes last among overlapping executions leaves that
\* value: an execution that fetched an older payload earlier, and took the
\* write lock later, does not put the older value back.
C21_NoStaleOverwrite ==
    [][\A l \in Running :
          (/\ Apply(l)
           /\ NoLoadRunning'
           /\ GetString(config, "a").v = Stringified(remote)["a"]
           /\ GetString(config, "a").err = "nil")
          => GetString(config', "a").v = Stringified(remote)["a"]]_vars

\* C22: getters are read-only.  A getter or a Get*WithDefault call, whether
\* it succeeds, fails or falls back to its default, changes neither the
\* snapshot, nor the last-updated timestamp, nor the state of a refresh
\* goroutine or of a LoadConfig under way, nor the context and the client;
\* taking the read lock changes the lock's reader count only, and every
\* return gives the read lock back: the lock counts exactly the getters
\* that are in progress.
C22_GettersAreReadOnly ==
    [][/\ mu.r = readers /\ mu'.r = readers'
       /\ readers' # readers =>
            /\ config' = config /\ updatedAt' = updatedAt
            /\ loaders' = loaders /\ wg' = wg
            /\ ctxDone' = ctxDone /\ closes' = closes /\ stop' = stop
            /\ remote' = remote
            /\ mu'.w = mu.w
       /\ readers' < readers =>
            /\ mu'.r = mu.r - 1
            /\ out'.call \in {"Get", "GetWithDefault"}
       /\ readers' > readers => mu'.r = mu.r + 1]_vars

\* GetIntWithDefault has fallen back to its default on the text "true" while
\* a refresh goroutine is alive, and no read lock is left held
C22_Witness ==
    /\ out.call = "GetWithDefault" /\ out.type = "int" /\ out.key = "b"
    /\ out.d = 100 /\ out.v = 100
    /\ "b" \in DOMAIN config /\ GetInt(config, "b").err = "parse"
    /\ readers = 0 /\ mu.r = 0
    /\ Tasks # {}

\* C23: the two stores are interchangeable for reads.  For the same
\* configuration, a typed value given to the in-memory store and the same
\* value loaded from the remote payload by a successful LoadConfig, every
\* getter gives the same outcome on both stores for every key and every
\* requested type (the same value, or an error on both), and so does every
\* Get*WithDefault for every default.
C23_StoresAgreeOnReads ==
    (remote > NumPayloads /\ updatedAt > 0) =>
        \A type \in Types, key \in Keys :
            LET r == Getter(type, config, key)
                m == InMemoryGet(type, InMemoryData(remote), key)
            IN  /\ (r.err = "nil") <=> (m.err = "nil")
                /\ (r.err = "nil" /\ m.err = "nil") => r.v = m.v
                /\ \A d \in Defaults(type) :
                       GetterWithDefault(type, config, key, d)
                           = InMemoryGetWithDefault(type, InMemoryData(remote), key, d)

====
